---- MODULE Spec2Model ----
(***************************************************************************)
(* SQLiteQueueManager (src/sqlite-queue.js): a durable message queue kept  *)
(* in one SQLite table per broker.  The manager object holds `db` and      *)
(* `dbInitialized`; the backing file holds the table message_queue and the *)
(* AUTOINCREMENT counter (sqlite_sequence).  Every method is modelled as   *)
(* one action covering the call, the statement it runs and its callback.   *)
(***************************************************************************)
EXTENDS Integers, Sequences, FiniteSets, TLC

\* ---------------------------------------------------------------- bounds
MaxEnqueues == 3      \* identifiers handed out by AUTOINCREMENT
MaxHandles == 2       \* sqlite3.Database objects created per process

\* ------------------------------------------------------ program constants
NoDb == 0             \* this.db = null
DefaultQos == 0
DefaultLimit == 500

\* ------------------------------------------------------------- JS values
Undefined == [t |-> "undefined"]
JNull == [t |-> "null"]
JBool(b) == [t |-> "boolean", b |-> b]
JNum(n) == [t |-> "number", n |-> n]
JStr(s) == [t |-> "string", s |-> s]
JArr(a) == [t |-> "array", a |-> a]
JObj(o) == [t |-> "object", o |-> o]

DefaultRetain == JBool(FALSE)

\* the i-th actual argument of a call; a missing argument is undefined
Arg(args, i) == IF i <= Len(args) THEN args[i] ELSE Undefined

\* a parameter with a default value: the default replaces undefined
Param(args, i, default) ==
    IF Arg(args, i).t = "undefined" THEN default ELSE Arg(args, i)

\* ToBoolean, as used by `retain ? 1 : 0`
Truthy(v) ==
    CASE v.t = "undefined" -> FALSE
      [] v.t = "null" -> FALSE
      [] v.t = "boolean" -> v.b
      [] v.t = "number" -> v.n # 0
      [] v.t = "string" -> v.s # <<>>
      [] OTHER -> TRUE

\* -------------------------------------------------------- JSON.stringify
DigitChar(d) == <<"0", "1", "2", "3", "4", "5", "6", "7", "8", "9">>[d + 1]

RECURSIVE Digits(_)
Digits(n) ==
    IF n < 10 THEN <<DigitChar(n)>> ELSE Digits(n \div 10) \o <<DigitChar(n % 10)>>

NumberText(n) == IF n < 0 THEN <<"-">> \o Digits(0 - n) ELSE Digits(n)

EscapeChar(c) ==
    IF c = "\"" THEN <<"\\", "\"">>
    ELSE IF c = "\\" THEN <<"\\", "\\">>
    ELSE <<c>>

RECURSIVE Escape(_)
Escape(s) == IF s = <<>> THEN <<>> ELSE EscapeChar(Head(s)) \o Escape(Tail(s))

\* mutant: a string is written between quotes without escaping
QuoteNoEscape(s) == <<"\"">> \o s \o <<"\"">>

\* a string between quotes, its quotes and backslashes escaped
Quote(s) == <<"\"">> \o Escape(s) \o <<"\"">>

NullText == <<"n", "u", "l", "l">>

RECURSIVE ValueText(_)
RECURSIVE ArrayText(_)
RECURSIVE ObjectText(_)

\* the members of an array, comma separated; undefined members print as null
ArrayText(a) ==
    IF a = <<>> THEN <<>>
    ELSE (IF Head(a).t = "undefined" THEN NullText ELSE ValueText(Head(a)))
         \o (IF Tail(a) = <<>> THEN <<>> ELSE <<",">> \o ArrayText(Tail(a)))

\* the properties of an object in insertion order; undefined ones are skipped
ObjectText(o) ==
    IF o = <<>> THEN <<>>
    ELSE IF Head(o)[2].t = "undefined" THEN ObjectText(Tail(o))
    ELSE Quote(Head(o)[1]) \o <<":">> \o ValueText(Head(o)[2])
         \o (LET rest == ObjectText(Tail(o))
             IN IF rest = <<>> THEN <<>> ELSE <<",">> \o rest)

\* the JSON text of a value other than undefined
ValueText(v) ==
    CASE v.t = "null" -> NullText
      [] v.t = "boolean" -> IF v.b THEN <<"t", "r", "u", "e">>
                            ELSE <<"f", "a", "l", "s", "e">>
      [] v.t = "number" -> NumberText(v.n)
      [] v.t = "string" -> Quote(v.s)
      [] v.t = "array" -> <<"[">> \o ArrayText(v.a) \o <<"]">>
      [] v.t = "object" -> <<"{">> \o ObjectText(v.o) \o <<"}">>

\* JSON.stringify(payload): a JS string, or undefined for undefined
JSONstringify(v) == IF v.t = "undefined" THEN Undefined ELSE JStr(ValueText(v))

\* ---------------------------------------------------- the backing file
\* The file of one broker: whether message_queue exists, its rows (a b-tree
\* keyed by id) and sqlite_sequence.seq, the largest id ever handed out.
EmptyFile == [hasTable |-> FALSE, rows |-> {}, seq |-> 0]

Min(a, b) == IF a < b THEN a ELSE b
Max(a, b) == IF a > b THEN a ELSE b

Ids(rows) == {r.id : r \in rows}

RECURSIVE MaxOf(_)
MaxOf(S) == IF S = {} THEN 0 ELSE LET x == CHOOSE x \in S : TRUE IN Max(x, MaxOf(S \ {x}))

\* mutant: the table is created anew at every initialize
SqlRecreateTable(f) == [hasTable |-> TRUE, rows |-> {}, seq |-> 0]

\* CREATE TABLE IF NOT EXISTS message_queue (...)
SqlCreateTable(f) ==
    IF f.hasTable THEN f ELSE [hasTable |-> TRUE, rows |-> {}, seq |-> 0]

\* a statement on message_queue fails when the table does not exist
NoSuchTable(f) == ~f.hasTable

\* a bound parameter that is undefined or null is SQL NULL
IsSqlNull(v) == v.t \in {"undefined", "null"}

\* mutant: INTEGER PRIMARY KEY without AUTOINCREMENT, one more than the
\* largest id now in the table
NextRowidNoAutoincrement(f) == MaxOf(Ids(f.rows)) + 1

\* id INTEGER PRIMARY KEY AUTOINCREMENT: one more than the largest id ever used
NextRowid(f) == Max(f.seq, MaxOf(Ids(f.rows))) + 1

\* topic TEXT NOT NULL, payload TEXT NOT NULL
ViolatesNotNull(params) == IsSqlNull(params[1]) \/ IsSqlNull(params[2])

\* mutant: the insert does not record the id it used in sqlite_sequence
SqlInsertStaleSeq(f, params) ==
    IF NoSuchTable(f) \/ ViolatesNotNull(params) THEN f
    ELSE [f EXCEPT !.rows = @ \cup {[id |-> NextRowid(f),
                                     topic |-> params[1].s,
                                     payload |-> params[2].s,
                                     qos |-> params[3].n,
                                     retain |-> params[4].n]}]

\* INSERT INTO message_queue (topic, payload, qos, retain) VALUES (?, ?, ?, ?)
\* The statement is rolled back whole when it fails.  The timestamp column
\* (DEFAULT CURRENT_TIMESTAMP) is filled by SQLite and used by no method; rows
\* carry the five columns the methods write or select by.
SqlInsert(f, params) ==
    IF NoSuchTable(f) \/ ViolatesNotNull(params) THEN f
    ELSE [f EXCEPT !.rows = @ \cup {[id |-> NextRowid(f),
                                     topic |-> params[1].s,
                                     payload |-> params[2].s,
                                     qos |-> params[3].n,
                                     retain |-> params[4].n]},
                   !.seq = NextRowid(f)]

SqlInsertFails(f, params) == NoSuchTable(f) \/ ViolatesNotNull(params)

\* mutant: the newest message is deleted, MAX(id) for MIN(id)
SqlDeleteMax(f) ==
    [f EXCEPT !.rows = {r \in @ : \E q \in f.rows : q.id > r.id}]

\* DELETE FROM message_queue WHERE id = (SELECT MIN(id) FROM message_queue)
SqlDeleteMin(f) ==
    [f EXCEPT !.rows = {r \in @ : \E q \in f.rows : q.id < r.id}]

\* mutant: every message up to the largest identifier named is deleted
SqlDeleteThrough(f, messageIds) ==
    [f EXCEPT !.rows = {r \in @ : \A i \in 1..Len(messageIds) : messageIds[i] < r.id}]

\* mutant: only the first identifier of the array is bound
SqlDeleteFirstOnly(f, messageIds) ==
    [f EXCEPT !.rows = {r \in @ : messageIds = <<>> \/ messageIds[1] # r.id}]

\* mutant: the rows named stay in the table with their payload emptied
SqlDeleteInTorn(f, messageIds) ==
    [f EXCEPT !.rows = {IF \E i \in 1..Len(messageIds) : messageIds[i] = r.id
                        THEN [r EXCEPT !.payload = <<>>] ELSE r : r \in @}]

\* DELETE FROM message_queue WHERE id IN (?, ..., ?)
SqlDeleteIn(f, messageIds) ==
    [f EXCEPT !.rows = {r \in @ : \A i \in 1..Len(messageIds) : messageIds[i] # r.id}]

\* mutant: WHERE id <= ?
SqlDeleteUpTo(f, messageId) == [f EXCEPT !.rows = {r \in @ : r.id > messageId}]

\* DELETE FROM message_queue WHERE id = ?
SqlDeleteId(f, messageId) == [f EXCEPT !.rows = {r \in @ : r.id # messageId}]

\* SELECT COUNT(*) as count FROM message_queue
SqlCount(f) == Cardinality(f.rows)

\* mutant: the scan returns the newest row first
RECURSIVE TableScanNewestFirst(_)
TableScanNewestFirst(rows) ==
    IF rows = {} THEN <<>>
    ELSE LET r == CHOOSE r \in rows : \A q \in rows : r.id >= q.id
         IN <<r>> \o TableScanNewestFirst(rows \ {r})

\* the rows one leaf page of the table b-tree holds at most
LeafRows == 8

\* the rows of one leaf page, in ascending id
RECURSIVE ScanLeaf(_)
ScanLeaf(rows) ==
    IF rows = {} THEN <<>>
    ELSE LET r == CHOOSE r \in rows : \A q \in rows : r.id <= q.id
         IN <<r>> \o ScanLeaf(rows \ {r})

\* the rows whose id lies in lo..hi, in ascending id: the walk of a b-tree
\* keyed by id, the lower half of the keys before the upper half
RECURSIVE ScanRange(_, _, _)
ScanRange(rows, lo, hi) ==
    IF Cardinality(rows) <= LeafRows THEN ScanLeaf(rows)
    ELSE LET mid == (lo + hi) \div 2
         IN ScanRange({r \in rows : r.id <= mid}, lo, mid)
            \o ScanRange({r \in rows : r.id > mid}, mid + 1, hi)

\* a full scan of the table walks the b-tree in ascending id
TableScan(rows) ==
    IF rows = {} THEN <<>>
    ELSE ScanRange(rows,
                   CHOOSE lo \in Ids(rows) : \A i \in Ids(rows) : lo <= i,
                   CHOOSE hi \in Ids(rows) : \A i \in Ids(rows) : hi >= i)

\* SELECT * FROM message_queue LIMIT ?   (a negative LIMIT is no limit)
SqlSelectLimit(f, limit) ==
    IF limit < 0 THEN TableScan(f.rows)
    ELSE SubSeq(TableScan(f.rows), 1, Min(limit, Cardinality(f.rows)))

\* --------------------------------------------------------------- state
VARIABLES
    db,             \* this.db: NoDb, or the sqlite3.Database object it refers to
    dbInitialized,  \* this.dbInitialized
    handles,        \* the Database objects of this process: "open", "failed" or "closed"
    dataDir,        \* whether the data directory exists
    file,           \* the backing file of this broker
    ret,            \* the last call made and how its promise settled
    assigned,       \* history: the ids given to the enqueued messages, in call order
    life,           \* history: "new", "opened", "failed" (an initialize failed) or "closed"
    snap,           \* history: what list() reported just before the last close, while
                    \* nothing but close and initialize was called since
    tasks,          \* overlapping calls: the work handed to Database objects whose
                    \* callback has not run yet
    calls,          \* overlapping calls: how many calls were made
    last,           \* overlapping calls: the work whose callback ran last, and its result
    inserted        \* history: every row as it was inserted

\* what only overlapping calls use; the sequential caller awaits every call
avars == <<tasks, calls, last, inserted>>

vars == <<db, dbInitialized, handles, dataDir, file, ret, assigned, life, snap,
          tasks, calls, last, inserted>>

NoTask ==
    [call |-> 0, kind |-> "none", h |-> 0, own |-> 0, args |-> <<>>,
     during |-> FALSE, behind |-> FALSE, rows |-> {}, seq |-> 0, named |-> {}]

NoLast == [t |-> NoTask, status |-> "none", value |-> <<>>]

NoTasks ==
    /\ tasks = {}
    /\ calls = 0
    /\ last = NoLast
    /\ inserted = {}

Result(op, args, status, value) ==
    [op |-> op, args |-> args, status |-> status, value |-> value]

NoSnap == [valid |-> FALSE, list |-> <<>>]

\* a statement handed to a Database object whose open failed never runs: its
\* callback gets an error or is never called
BrokenOutcomes == {"SqliteError", "pending"}

\* ------------------------------------------------------- inputs of calls
EnqueueArgs ==
    { <<JStr(<<"a">>), JObj(<< <<(<<"v">>), JNum(42)>> >>), JNum(1), JBool(FALSE)>>,
      <<JStr(<<"b">>), JStr(<<"x", "\"">>)>>,
      <<JStr(<<>>), JNull, JNum(0), JBool(TRUE)>>,
      <<Undefined, JArr(<<JNum(1), JBool(TRUE)>>)>>,
      <<JStr(<<"a">>)>> }

LimitArgs == { <<>>, <<JNum(0 - 1)>>, <<JNum(0)>>, <<JNum(1)>>, <<JNum(2)>> }

IdArrays == { <<>>, <<1>>, <<1, 3>>, <<2, 2, 9>> }

\* ---------------------------------------------------------- constructor
constructor ==
    /\ db = NoDb
    /\ dbInitialized = FALSE

Init ==
    /\ constructor
    /\ handles = <<>>
    /\ dataDir = FALSE
    /\ file = EmptyFile
    /\ ret = Result("none", <<>>, "ok", <<>>)
    /\ assigned = <<>>
    /\ life = "new"
    /\ snap = NoSnap
    /\ NoTasks

\* --------------------------------------------------- initializeDatabase
\* mutant: the test for an existing handle is inverted
AlreadyInitializedInverted == dbInitialized /\ db = NoDb

\* if (this.dbInitialized && this.db)
AlreadyInitialized == dbInitialized /\ db # NoDb

initializeDatabase ==
    /\ UNCHANGED avars
    /\ IF AlreadyInitialized
       THEN /\ ret' = Result("initialize", <<>>, "ok", db)
            /\ UNCHANGED <<db, dbInitialized, handles, dataDir, file, assigned, life, snap>>
       ELSE \E outcome \in {"mkdirError", "openError", "schemaError", "ok"} :
            LET h == Len(handles) + 1 IN
            IF outcome = "mkdirError"
            THEN \* fs.mkdirSync throws: nothing was opened
                 /\ ~dataDir
                 /\ ret' = Result("initialize", <<>>, "FsError", <<>>)
                 /\ life' = "failed"
                 /\ UNCHANGED <<db, dbInitialized, handles, dataDir, file, assigned, snap>>
            ELSE /\ Len(handles) < MaxHandles
                 /\ dataDir' = TRUE
                 /\ db' = h             \* this.db = new sqlite3.Database(...)
                 /\ UNCHANGED <<assigned, snap>>
                 /\ CASE outcome = "openError" ->
                           /\ handles' = Append(handles, "failed")
                           /\ ret' = Result("initialize", <<>>, "SqliteError", <<>>)
                           /\ life' = "failed"
                           /\ UNCHANGED <<dbInitialized, file>>
                      [] outcome = "schemaError" ->
                           /\ handles' = Append(handles, "open")
                           /\ ret' = Result("initialize", <<>>, "SqliteError", <<>>)
                           /\ life' = "failed"
                           /\ UNCHANGED <<dbInitialized, file>>
                      [] outcome = "ok" ->
                           /\ handles' = Append(handles, "open")
                           /\ file' = SqlCreateTable(file)
                           /\ dbInitialized' = TRUE
                           /\ ret' = Result("initialize", <<>>, "ok", h)
                           /\ life' = "opened"

\* ------------------------------------------------------- getQueueLength
\* mutant: getQueueLength guards like the mutating methods and throws
getQueueLengthResultThrows ==
    IF db = NoDb THEN {[status |-> "NotInitialized", value |-> <<>>]}
    ELSE IF handles[db] = "failed" THEN {[status |-> st, value |-> <<>>] : st \in BrokenOutcomes}
    ELSE IF NoSuchTable(file) THEN {[status |-> "SqliteError", value |-> <<>>]}
    ELSE {[status |-> "ok", value |-> SqlCount(file)]}

\* how getQueueLength() settles in the current state
getQueueLengthResult ==
    IF db = NoDb THEN {[status |-> "ok", value |-> 0]}
    ELSE IF handles[db] = "failed" THEN {[status |-> st, value |-> <<>>] : st \in BrokenOutcomes}
    ELSE IF NoSuchTable(file) THEN {[status |-> "SqliteError", value |-> <<>>]}
    ELSE {[status |-> "ok", value |-> SqlCount(file)]}

getQueueLength ==
    /\ UNCHANGED avars
    /\ \E r \in getQueueLengthResult : ret' = Result("length", <<>>, r.status, r.value)
    /\ snap' = NoSnap
    /\ UNCHANGED <<db, dbInitialized, handles, dataDir, file, assigned, life>>

\* ---------------------------------------------------- addMessageToQueue
addMessageToQueue(args) ==
    LET topic == Arg(args, 1)
        payload == Arg(args, 2)
        qos == Param(args, 3, JNum(DefaultQos))
        retain == Param(args, 4, DefaultRetain)
        payloadStr == JSONstringify(payload)
        params == <<topic, payloadStr, qos, JNum(IF Truthy(retain) THEN 1 ELSE 0)>>
    IN
    /\ UNCHANGED avars
    /\ snap' = NoSnap
    /\ UNCHANGED <<db, dbInitialized, handles, dataDir, life>>
    /\ IF db = NoDb
       THEN /\ ret' = Result("enqueue", args, "NotInitialized", <<>>)
            /\ UNCHANGED <<file, assigned>>
       ELSE IF handles[db] = "failed"
       THEN /\ \E st \in BrokenOutcomes : ret' = Result("enqueue", args, st, <<>>)
            /\ UNCHANGED <<file, assigned>>
       ELSE IF SqlInsertFails(file, params)
       THEN /\ ret' = Result("enqueue", args, "SqliteError", <<>>)
            /\ UNCHANGED <<file, assigned>>
       ELSE /\ file.seq < MaxEnqueues
            /\ file' = SqlInsert(file, params)
            /\ assigned' = Append(assigned,
                                  CHOOSE id \in Ids(file'.rows) : id \notin Ids(file.rows))
            /\ ret' = Result("enqueue", args, "ok", <<>>)

\* -------------------------------------------------- removeOldestMessage
removeOldestMessage ==
    /\ UNCHANGED avars
    /\ snap' = NoSnap
    /\ UNCHANGED <<db, dbInitialized, handles, dataDir, assigned, life>>
    /\ IF db = NoDb
       THEN /\ ret' = Result("removeOldest", <<>>, "NotInitialized", <<>>)
            /\ UNCHANGED file
       ELSE IF handles[db] = "failed"
       THEN /\ \E st \in BrokenOutcomes : ret' = Result("removeOldest", <<>>, st, <<>>)
            /\ UNCHANGED file
       ELSE IF NoSuchTable(file)
       THEN /\ ret' = Result("removeOldest", <<>>, "SqliteError", <<>>)
            /\ UNCHANGED file
       ELSE /\ file' = SqlDeleteMin(file)
            /\ ret' = Result("removeOldest", <<>>, "ok", <<>>)

\* ------------------------------------------------- getMessagesFromQueue
\* how getMessagesFromQueue(...args) settles in the current state
getMessagesFromQueueResult(args) ==
    LET limit == Param(args, 1, JNum(DefaultLimit)) IN
    IF db = NoDb THEN {[status |-> "ok", value |-> <<>>]}
    ELSE IF handles[db] = "failed" THEN {[status |-> st, value |-> <<>>] : st \in BrokenOutcomes}
    ELSE IF NoSuchTable(file) THEN {[status |-> "SqliteError", value |-> <<>>]}
    ELSE {[status |-> "ok", value |-> SqlSelectLimit(file, limit.n)]}

\* mutant: the messages returned are deleted, a destructive read
getMessagesFromQueueDraining(args) ==
    /\ UNCHANGED avars
    /\ \E r \in getMessagesFromQueueResult(args) :
          /\ ret' = Result("list", args, r.status, r.value)
          /\ file' = [file EXCEPT !.rows = {q \in @ : \A i \in 1..Len(r.value) : r.value[i] # q}]
    /\ snap' = NoSnap
    /\ UNCHANGED <<db, dbInitialized, handles, dataDir, assigned, life>>

getMessagesFromQueue(args) ==
    /\ UNCHANGED avars
    /\ \E r \in getMessagesFromQueueResult(args) : ret' = Result("list", args, r.status, r.value)
    /\ snap' = NoSnap
    /\ UNCHANGED <<db, dbInitialized, handles, dataDir, file, assigned, life>>

\* ---------------------------------------------- removeMessagesFromQueue
removeMessagesFromQueue(messageIds) ==
    /\ UNCHANGED avars
    /\ snap' = NoSnap
    /\ UNCHANGED <<db, dbInitialized, handles, dataDir, assigned, life>>
    /\ IF db = NoDb \/ Len(messageIds) = 0
       THEN /\ ret' = Result("removeByIds", messageIds, "ok", <<>>)
            /\ UNCHANGED file
       ELSE IF handles[db] = "failed"
       THEN /\ \E st \in BrokenOutcomes : ret' = Result("removeByIds", messageIds, st, <<>>)
            /\ UNCHANGED file
       ELSE IF NoSuchTable(file)
       THEN /\ ret' = Result("removeByIds", messageIds, "SqliteError", <<>>)
            /\ UNCHANGED file
       ELSE /\ file' = SqlDeleteIn(file, messageIds)
            /\ ret' = Result("removeByIds", messageIds, "ok", <<>>)

\* ----------------------------------------------- removeMessageFromQueue
removeMessageFromQueue(messageId) ==
    /\ UNCHANGED avars
    /\ snap' = NoSnap
    /\ UNCHANGED <<db, dbInitialized, handles, dataDir, assigned, life>>
    /\ IF db = NoDb
       THEN /\ ret' = Result("removeById", <<messageId>>, "NotInitialized", <<>>)
            /\ UNCHANGED file
       ELSE IF handles[db] = "failed"
       THEN /\ \E st \in BrokenOutcomes : ret' = Result("removeById", <<messageId>>, st, <<>>)
            /\ UNCHANGED file
       ELSE IF NoSuchTable(file)
       THEN /\ ret' = Result("removeById", <<messageId>>, "SqliteError", <<>>)
            /\ UNCHANGED file
       ELSE /\ file' = SqlDeleteId(file, messageId)
            /\ ret' = Result("removeById", <<messageId>>, "ok", <<>>)

\* -------------------------------------------------------- closeDatabase
closeDatabase ==
    /\ UNCHANGED avars
    /\ UNCHANGED <<dataDir, file, assigned>>
    /\ IF db = NoDb
       THEN /\ ret' = Result("close", <<>>, "ok", <<>>)
            /\ UNCHANGED <<db, dbInitialized, handles, life, snap>>
       ELSE IF handles[db] = "failed"
       THEN /\ \E st \in BrokenOutcomes : ret' = Result("close", <<>>, st, <<>>)
            /\ UNCHANGED <<db, dbInitialized, handles, life, snap>>
       ELSE /\ handles' = [handles EXCEPT ![db] = "closed"]
            /\ db' = NoDb
            /\ dbInitialized' = FALSE
            /\ ret' = Result("close", <<>>, "ok", <<>>)
            /\ life' = "closed"
            /\ snap' = IF \E r \in getMessagesFromQueueResult(<<>>) : r.status = "ok"
                       THEN [valid |-> TRUE,
                             list |-> (CHOOSE r \in getMessagesFromQueueResult(<<>>) : TRUE).value]
                       ELSE NoSnap

\* ------------------------------------------------ restart of the process
\* The process ends and a new one constructs a manager for the same broker:
\* every Database object of the old process is released, the data directory
\* and the file stay.
Restart ==
    /\ UNCHANGED avars
    /\ db' = NoDb
    /\ dbInitialized' = FALSE
    /\ handles' = [h \in DOMAIN handles |-> "closed"]
    /\ ret' = Result("none", <<>>, "ok", <<>>)
    /\ life' = "new"
    /\ snap' = NoSnap
    /\ UNCHANGED <<dataDir, file, assigned>>

Next ==
    \/ initializeDatabase
    \/ getQueueLength
    \/ \E args \in EnqueueArgs : addMessageToQueue(args)
    \/ removeOldestMessage
    \/ \E args \in LimitArgs : getMessagesFromQueue(args)
    \/ \E messageIds \in IdArrays : removeMessagesFromQueue(messageIds)
    \/ \E messageId \in 1..(MaxEnqueues + 1) : removeMessageFromQueue(messageId)
    \/ closeDatabase
    \/ Restart

Spec == Init /\ [][Next]_vars

\* ================================================================ claims

\* C1: the identifiers given to successive enqueues are strictly increasing in
\* call order, and a successful list() returns surviving messages in strictly
\* ascending identifier order: all of them when no limit cuts the result.
C1_FifoOrder ==
    /\ \A i, j \in 1..Len(assigned) : i < j => assigned[i] < assigned[j]
    /\ (ret.op = "list" /\ ret.status = "ok") =>
          /\ \A i, j \in 1..Len(ret.value) : i < j => ret.value[i].id < ret.value[j].id
          /\ \A i \in 1..Len(ret.value) : ret.value[i] \in file.rows
          /\ (life = "opened" /\ ret.args = <<>>) =>
                {ret.value[i] : i \in 1..Len(ret.value)} = file.rows

\* three messages were enqueued, the middle one was removed, list() returned 1 then 3
C1_Witness ==
    /\ ret.op = "list" /\ ret.status = "ok" /\ ret.args = <<>>
    /\ Len(assigned) = 3
    /\ Len(ret.value) = 2
    /\ ret.value[1].id = 1 /\ ret.value[2].id = 3

\* C2: an identifier is never reused: the identifier an enqueue assigns is
\* strictly greater than every identifier assigned before it, whatever was
\* deleted, closed, reopened or restarted in between.
C2_NeverReused ==
    [][Len(assigned') > Len(assigned) =>
          /\ Len(assigned') = Len(assigned) + 1
          /\ SubSeq(assigned', 1, Len(assigned)) = assigned
          /\ \A i \in 1..Len(assigned) : assigned[i] < assigned'[Len(assigned')]]_vars

\* the queue was emptied, the store closed and reopened, and the next enqueue
\* got identifier 2
C2_Witness ==
    /\ ret.op = "enqueue" /\ ret.status = "ok"
    /\ Len(handles) = 2 /\ handles[1] = "closed" /\ db = 2
    /\ assigned = <<1, 2>>
    /\ Ids(file.rows) = {2}

\* what length() reports in the current state is n, without error
LengthIs(n) == getQueueLengthResult = {[status |-> "ok", value |-> n]}

\* the message with the largest identifier of a sequence of listed rows
Newest(list) == list[Len(list)]

\* what list() with the default limit reports in the current state
ListAll == (CHOOSE r \in getMessagesFromQueueResult(<<>>) : TRUE).value

JsonPayloads == {Arg(args, 2) : args \in EnqueueArgs} \ {Undefined}

C4_AsClaimed ==
    [][(life # "opened" /\ ret'.op \in {"enqueue", "removeOldest", "removeById"}) =>
          /\ ret'.status = "NotInitialized"
          /\ file' = file]_vars

\* C5: on a store that was never initialized or is closed, length() returns 0,
\* list() returns the empty sequence, removeByIds() and close() do nothing;
\* none reports an error and none changes the lifecycle state or the store.
C5_UninitializedDefaults ==
    [][(life \in {"new", "closed"}
        /\ ret'.op \in {"length", "list", "removeByIds", "close"}) =>
          /\ ret'.status = "ok"
          /\ (ret'.op = "length" => ret'.value = 0)
          /\ (ret'.op = "list" => ret'.value = <<>>)
          /\ UNCHANGED <<db, dbInitialized, handles, dataDir, file, life>>]_vars

\* a closed store that still holds messages answered list() with nothing
C5_Witness ==
    /\ life = "closed"
    /\ ret.op = "list" /\ ret.status = "ok" /\ ret.value = <<>>
    /\ file.rows # {}

\* the stored message with the smallest identifier
Oldest(rows) == CHOOSE r \in rows : \A q \in rows : r.id <= q.id

\* C6: removeOldest() on an initialized store succeeds; on a non-empty queue it
\* removes exactly the message with the smallest identifier, keeps every other
\* message as it was and lowers length() by exactly 1; on an empty queue it
\* changes nothing.
C6_RemoveOldest ==
    [][(life = "opened" /\ ret'.op = "removeOldest") =>
          /\ ret'.status = "ok"
          /\ IF file.rows # {}
             THEN /\ file'.rows = file.rows \ {Oldest(file.rows)}
                  /\ \E n \in 1..MaxEnqueues : LengthIs(n) /\ LengthIs(n - 1)'
             ELSE /\ file'.rows = {}
                  /\ LengthIs(0) /\ LengthIs(0)'
          /\ UNCHANGED <<db, dbInitialized, handles, life>>]_vars

\* removeOldest took message 1 out of a queue of three
C6_Witness ==
    /\ ret.op = "removeOldest" /\ ret.status = "ok"
    /\ assigned = <<1, 2, 3>>
    /\ Ids(file.rows) = {2, 3}

\* the identifiers named by an array of identifiers
Named(messageIds) == {messageIds[i] : i \in 1..Len(messageIds)}

\* C7: removeByIds(ids) on an initialized store succeeds and leaves exactly the
\* messages whose identifier is not in ids, each as it was; identifiers in ids
\* that are not present change nothing.
C7_RemoveByIds ==
    [][(life = "opened" /\ ret'.op = "removeByIds") =>
          /\ ret'.status = "ok"
          /\ file'.rows = {r \in file.rows : r.id \notin Named(ret'.args)}
          /\ UNCHANGED <<db, dbInitialized, handles, life>>]_vars

\* removeByIds([1, 3]) left message 2 of three
C7_Witness ==
    /\ ret.op = "removeByIds" /\ ret.status = "ok" /\ ret.args = <<1, 3>>
    /\ life = "opened"
    /\ assigned = <<1, 2, 3>>
    /\ Ids(file.rows) = {2}

\* C8: removeById(id) on an initialized store succeeds whether or not a
\* message has that identifier; it deletes that message if present and keeps
\* every other message as it was.
C8_RemoveById ==
    [][(life = "opened" /\ ret'.op = "removeById") =>
          /\ ret'.status = "ok"
          /\ file'.rows = {r \in file.rows : r.id # ret'.args[1]}
          /\ UNCHANGED <<db, dbInitialized, handles, life>>]_vars

\* removeById(2) took the middle message out of three
C8_Witness ==
    /\ ret.op = "removeById" /\ ret.status = "ok" /\ ret.args = <<2>>
    /\ life = "opened"
    /\ assigned = <<1, 2, 3>>
    /\ Ids(file.rows) = {1, 3}

\* C9: after a successful close() followed by a successful initialize(),
\* list() and length() report exactly the messages that list() reported just
\* before the close: same identifiers, same contents, same order.
C9_DurableAcrossReopen ==
    (ret.op = "initialize" /\ ret.status = "ok" /\ snap.valid) =>
        /\ getMessagesFromQueueResult(<<>>) = {[status |-> "ok", value |-> snap.list]}
        /\ LengthIs(Len(snap.list))

\* a store holding two messages was closed and reopened
C9_Witness ==
    /\ ret.op = "initialize" /\ ret.status = "ok"
    /\ snap.valid /\ Len(snap.list) = 2
    /\ Len(handles) = 2 /\ handles[1] = "closed" /\ db = 2

\* C10: initialize() on an initialized store returns the handle the store
\* already holds, which is the one the initialize() that opened it returned;
\* it opens no handle and leaves the lifecycle state and the stored messages
\* unchanged.
C10_InitializeIdempotent ==
    [][(ret'.op = "initialize" /\ ret'.status = "ok") =>
          /\ ret'.value = db'
          /\ life = "opened" =>
                /\ ret'.value = db
                /\ UNCHANGED <<db, dbInitialized, handles, dataDir, file, life>>]_vars

\* initialize() was called again on the only handle this broker ever had,
\* after a message was enqueued
C10_Witness ==
    /\ ret.op = "initialize" /\ ret.status = "ok" /\ ret.value = 1
    /\ handles = <<"open">>
    /\ file.rows # {}

\* ------------------------------------------- list(limit) on a long queue
\* A store that is open and already holds messages 1..n.
FullTable(n) ==
    [hasTable |-> TRUE,
     rows |-> {[id |-> i, topic |-> <<"a">>, payload |-> NullText, qos |-> 0, retain |-> 0]
                 : i \in 1..n},
     seq |-> n]

\* queue lengths around the default limit, and short ones
QueueSizes == {0, 1, 2} \cup ((DefaultLimit - 2)..(DefaultLimit + 3))

LongLimitArgs ==
    LimitArgs \cup {<<JNum(0 - 2)>>, <<JNum(3)>>, <<JNum(DefaultLimit - 1)>>,
                    <<JNum(DefaultLimit)>>, <<JNum(DefaultLimit + 1)>>,
                    <<JNum(2 * DefaultLimit)>>}

InitLimit ==
    /\ db = 1
    /\ dbInitialized = TRUE
    /\ handles = <<"open">>
    /\ dataDir = TRUE
    /\ \E n \in QueueSizes :
          /\ file = FullTable(n)
          /\ assigned = [i \in 1..n |-> i]
    /\ ret = Result("none", <<>>, "ok", <<>>)
    /\ life = "opened"
    /\ snap = NoSnap
    /\ NoTasks

NextLimit == \E args \in LongLimitArgs : getMessagesFromQueue(args)

SpecLimit == InitLimit /\ [][NextLimit]_vars

\* C12 as claimed: list(limit) with a positive limit returns exactly the
\* min(limit, length()) messages with the smallest identifiers, in ascending
\* order; with a limit <= 0 it returns no more than the default of 500 messages.
C12_AsClaimed ==
    (ret.op = "list" /\ ret.status = "ok" /\ life = "opened") =>
        LET limit == Param(ret.args, 1, JNum(500)).n
            n == Cardinality(file.rows)
            count == Len(ret.value)
        IN IF limit > 0
           THEN /\ count = (IF limit < n THEN limit ELSE n)
                /\ \A i \in 1..count : ret.value[i] \in file.rows
                /\ \A i, j \in 1..count : i < j => ret.value[i].id < ret.value[j].id
                /\ \A r \in file.rows :
                      (\A i \in 1..count : ret.value[i] # r) =>
                          \A i \in 1..count : ret.value[i].id < r.id
           ELSE count <= 500

\* C13: list() and length() are non-destructive: whatever the state they are
\* called in and however they settle, the stored messages, the next identifier,
\* the handle, the flag, the Database objects and the lifecycle are unchanged.
C13_ReadsChangeNothing ==
    [][ret'.op \in {"list", "length"} =>
          UNCHANGED <<db, dbInitialized, handles, dataDir, file, assigned, life>>]_vars

\* list() returned all three messages of the queue, which still holds them
C13_Witness ==
    /\ ret.op = "list" /\ ret.status = "ok"
    /\ Len(ret.value) = 3
    /\ Cardinality(file.rows) = 3
    /\ file.seq = 3

\* C14 as claimed: every stored message has a non-empty topic; an enqueue
\* whose topic is the empty string or missing adds no message.
C14_AsClaimed ==
    /\ \A r \in file.rows : r.topic # <<>>
    /\ (ret.op = "enqueue" /\ Arg(ret.args, 1) \in {JStr(<<>>), Undefined})
          => ret.status # "ok"

\* C15: a stored message stays stored until a removeById or removeByIds call
\* names its identifier or removeOldest is called while it has the smallest
\* identifier; a list() on the initialized store whose limit is not below the
\* queue length returns every stored message.
C15_RetainedUntilRemoved ==
    [][/\ \A r \in file.rows :
             r \notin file'.rows =>
                \/ ret'.op = "removeById" /\ ret'.args[1] = r.id
                \/ ret'.op = "removeByIds" /\ r.id \in Named(ret'.args)
                \/ ret'.op = "removeOldest" /\ \A q \in file.rows : r.id <= q.id
       /\ (ret'.op = "list" /\ ret'.status = "ok" /\ life = "opened"
           /\ Param(ret'.args, 1, JNum(500)).n >= Cardinality(file.rows)) =>
             {ret'.value[i] : i \in 1..Len(ret'.value)} = file.rows]_vars

\* of a batch of three only message 1 was confirmed and removed by
\* removeByIds([1]); messages 2 and 3 are still stored
C15_Witness ==
    /\ ret.op = "removeByIds" /\ ret.status = "ok" /\ ret.args = <<1>>
    /\ life = "opened"
    /\ assigned = <<1, 2, 3>>
    /\ Ids(file.rows) = {2, 3}

\* C18 as claimed: after a failed initialize() the store is uninitialized:
\* enqueue, removeOldest and removeById fail with NotInitialized, length()
\* returns 0, list() returns the empty sequence, and an initialize() that
\* succeeds makes the store initialized.
C18_AsClaimed ==
    [][life = "failed" =>
          /\ ret'.op \in {"enqueue", "removeOldest", "removeById"} =>
                ret'.status = "NotInitialized"
          /\ ret'.op = "length" => (ret'.status = "ok" /\ ret'.value = 0)
          /\ ret'.op = "list" => (ret'.status = "ok" /\ ret'.value = <<>>)
          /\ (ret'.op = "initialize" /\ ret'.status = "ok") =>
                (life' = "opened" /\ dbInitialized' /\ db' # NoDb)]_vars

\* --------------------------------------------------------------- C11
OpenHandles == {h \in DOMAIN handles : handles[h] = "open"}

\* C11: in every reachable state at most one Database object of the process
\*      is open on the backing file, also after an initialize() that failed.
\*      The code replaces this.db without closing the object it held: after
\*      CREATE TABLE failed on an opened object, the next initialize() opens
\*      a second one next to it.
C11_AsClaimed == Cardinality(OpenHandles) <= 1


\* ===================================================== overlapping calls
\* The caller does not await: a call is made while the callbacks of earlier
\* calls have not run.  A Database object queues the statements handed to it
\* until its file is open; once open it runs them on the thread pool, where
\* they complete in any order, each statement being atomic on the file.
\* close is exclusive: it runs when no statement of the object is running,
\* and a statement queued behind a close finds the object closed.
MaxCalls == 4

\* what an earlier process of this broker left in the file: nothing, or a
\* queue of two messages
LeftFiles == {EmptyFile, FullTable(2)}

\* a new process: the state after construction, over a file left earlier
InitAsync ==
    /\ constructor
    /\ handles = <<>>
    /\ \E f \in LeftFiles :
          /\ file = f
          /\ dataDir = f.hasTable
          /\ assigned = [i \in 1..f.seq |-> i]
          /\ inserted = f.rows
    /\ ret = Result("none", <<>>, "ok", <<>>)
    /\ life = "new"
    /\ snap = NoSnap
    /\ tasks = {}
    /\ calls = 0
    /\ last = NoLast

AsyncEnqueueArgs ==
    { <<JStr(<<"a">>), JObj(<< <<(<<"v">>), JNum(42)>> >>), JNum(1), JBool(FALSE)>> }

AsyncLimitArgs == { <<>> }

AsyncIdArrays == { <<1>> }

\* an initialize() or a close() was called and its promise has not settled
InProgress == \E t \in tasks : t.kind \in {"open", "create", "close"}

\* the object is not open yet and a close is queued on it already
BehindClose(h) ==
    /\ h # NoDb
    /\ handles[h] = "opening"
    /\ \E c \in tasks : c.kind = "close" /\ c.h = h

\* the work of call number c handed to Database object h; a list() notes the
\* table as it is at the call and the ids that removals in flight name
Task(c, kind, h, own, args) ==
    [call |-> c, kind |-> kind, h |-> h, own |-> own, args |-> args,
     during |-> InProgress, behind |-> BehindClose(h),
     rows |-> IF kind = "select" THEN file.rows ELSE {},
     seq |-> IF kind = "select" THEN file.seq ELSE 0,
     named |-> IF kind = "select"
               THEN UNION {{u.args[i] : i \in 1..Len(u.args)} :
                           u \in {v \in tasks : v.kind = "deleteIn"}}
               ELSE {}]

Settled(t, status, value) == [t |-> t, status |-> status, value |-> value]

\* initializeDatabase, up to new sqlite3.Database(...)
initializeDatabaseCall ==
    /\ calls < MaxCalls
    /\ calls' = calls + 1
    /\ IF AlreadyInitialized
       THEN /\ last' = Settled(Task(calls + 1, "initialize", NoDb, NoDb, <<>>), "ok", db)
            /\ UNCHANGED <<db, handles, dataDir, tasks>>
       ELSE LET h == Len(handles) + 1 IN
            /\ Len(handles) < MaxHandles
            /\ dataDir' = TRUE
            /\ handles' = Append(handles, "opening")
            /\ db' = h
            /\ tasks' = tasks \cup {[Task(calls + 1, "open", NoDb, h, <<>>) EXCEPT !.h = h]}
            /\ UNCHANGED last
    /\ UNCHANGED <<dbInitialized, file, ret, assigned, life, snap, inserted>>

\* the callback of new sqlite3.Database(...): it hands CREATE TABLE to the
\* object this.db refers to at that moment
openCallback(t) ==
    /\ t.kind = "open"
    /\ handles[t.h] = "opening"
    /\ \E opened \in BOOLEAN :
          IF ~opened
          THEN /\ handles' = [handles EXCEPT ![t.h] = "failed"]
               /\ tasks' = tasks \ {t}
               /\ last' = Settled(t, "SqliteError", <<>>)
          ELSE /\ handles' = [handles EXCEPT ![t.h] = "open"]
               /\ IF db = NoDb
                  THEN \* this.db.run on null throws inside the callback
                       /\ tasks' = tasks \ {t}
                       /\ last' = Settled(t, "TypeError", <<>>)
                  ELSE /\ tasks' = (tasks \ {t}) \cup
                                   {[t EXCEPT !.kind = "create", !.h = db,
                                              !.behind = BehindClose(db) /\ db # t.h]}
                       /\ UNCHANGED last
    /\ UNCHANGED <<db, dbInitialized, dataDir, file, ret, assigned, life, snap,
                   calls, inserted>>

\* the parameters addMessageToQueue binds to its INSERT
InsertParams(args) ==
    <<Arg(args, 1), JSONstringify(Arg(args, 2)), Param(args, 3, JNum(DefaultQos)),
      JNum(IF Truthy(Param(args, 4, DefaultRetain)) THEN 1 ELSE 0)>>

\* addMessageToQueue, up to this.db.run(...)
addMessageToQueueCall(args) ==
    /\ calls < MaxCalls
    /\ calls' = calls + 1
    /\ IF db = NoDb
       THEN /\ last' = Settled(Task(calls + 1, "insert", NoDb, NoDb, args), "NotInitialized", <<>>)
            /\ UNCHANGED tasks
       ELSE /\ tasks' = tasks \cup {Task(calls + 1, "insert", db, db, args)}
            /\ UNCHANGED last
    /\ UNCHANGED <<db, dbInitialized, handles, dataDir, file, ret, assigned, life, snap,
                   inserted>>

\* getMessagesFromQueue, up to this.db.all(...)
getMessagesFromQueueCall(args) ==
    /\ calls < MaxCalls
    /\ calls' = calls + 1
    /\ IF db = NoDb
       THEN /\ last' = Settled(Task(calls + 1, "select", NoDb, NoDb, args), "ok", <<>>)
            /\ UNCHANGED tasks
       ELSE /\ tasks' = tasks \cup {Task(calls + 1, "select", db, db, args)}
            /\ UNCHANGED last
    /\ UNCHANGED <<db, dbInitialized, handles, dataDir, file, ret, assigned, life, snap,
                   inserted>>

\* removeMessagesFromQueue, up to this.db.run(...); every list() in flight
\* notes the ids named while it is in flight
removeMessagesFromQueueCall(messageIds) ==
    /\ calls < MaxCalls
    /\ calls' = calls + 1
    /\ IF db = NoDb \/ Len(messageIds) = 0
       THEN /\ last' = Settled(Task(calls + 1, "deleteIn", NoDb, NoDb, messageIds), "ok", <<>>)
            /\ UNCHANGED tasks
       ELSE /\ tasks' = {IF t.kind = "select"
                         THEN [t EXCEPT !.named = @ \cup {messageIds[i] : i \in 1..Len(messageIds)}]
                         ELSE t : t \in tasks}
                        \cup {Task(calls + 1, "deleteIn", db, db, messageIds)}
            /\ UNCHANGED last
    /\ UNCHANGED <<db, dbInitialized, handles, dataDir, file, ret, assigned, life, snap,
                   inserted>>

\* closeDatabase, up to this.db.close(...)
closeDatabaseCall ==
    /\ calls < MaxCalls
    /\ calls' = calls + 1
    /\ IF db = NoDb
       THEN /\ last' = Settled(Task(calls + 1, "close", NoDb, NoDb, <<>>), "ok", <<>>)
            /\ UNCHANGED tasks
       ELSE /\ tasks' = tasks \cup {Task(calls + 1, "close", db, db, <<>>)}
            /\ UNCHANGED last
    /\ UNCHANGED <<db, dbInitialized, handles, dataDir, file, ret, assigned, life, snap,
                   inserted>>

\* a statement handed to Database object t.h can complete now
Runs(t, kind) ==
    /\ t.kind = kind
    /\ handles[t.h] = "open"
    /\ ~t.behind

\* CREATE TABLE completes and the inner callback of initializeDatabase runs
createTableCallback(t) ==
    /\ Runs(t, "create")
    /\ tasks' = tasks \ {t}
    /\ \E created \in BOOLEAN :
          IF created
          THEN /\ file' = SqlCreateTable(file)
               /\ dbInitialized' = TRUE
               /\ last' = Settled(t, "ok", db)      \* resolve(this.db)
          ELSE /\ last' = Settled(t, "SqliteError", <<>>)
               /\ UNCHANGED <<file, dbInitialized>>
    /\ UNCHANGED <<db, handles, dataDir, ret, assigned, life, snap, calls, inserted>>

\* the INSERT completes and the callback of addMessageToQueue runs
insertCallback(t) ==
    /\ Runs(t, "insert")
    /\ tasks' = tasks \ {t}
    /\ IF SqlInsertFails(file, InsertParams(t.args))
       THEN /\ last' = Settled(t, "SqliteError", <<>>)
            /\ UNCHANGED <<file, assigned, inserted>>
       ELSE /\ file.seq < MaxEnqueues
            /\ file' = SqlInsert(file, InsertParams(t.args))
            /\ assigned' = Append(assigned,
                                  CHOOSE id \in Ids(file'.rows) : id \notin Ids(file.rows))
            /\ inserted' = inserted \cup (file'.rows \ file.rows)
            /\ last' = Settled(t, "ok", <<>>)
    /\ UNCHANGED <<db, dbInitialized, handles, dataDir, ret, life, snap, calls>>

\* the SELECT completes and the callback of getMessagesFromQueue runs
selectCallback(t) ==
    /\ Runs(t, "select")
    /\ tasks' = tasks \ {t}
    /\ IF NoSuchTable(file)
       THEN last' = Settled(t, "SqliteError", <<>>)
       ELSE last' = Settled(t, "ok",
                            SqlSelectLimit(file, Param(t.args, 1, JNum(DefaultLimit)).n))
    /\ UNCHANGED <<db, dbInitialized, handles, dataDir, file, ret, assigned, life, snap,
                   calls, inserted>>

\* the DELETE ... IN completes and the callback of removeMessagesFromQueue runs
deleteInCallback(t) ==
    /\ Runs(t, "deleteIn")
    /\ tasks' = tasks \ {t}
    /\ IF NoSuchTable(file)
       THEN /\ last' = Settled(t, "SqliteError", <<>>)
            /\ UNCHANGED file
       ELSE /\ file' = SqlDeleteIn(file, t.args)
            /\ last' = Settled(t, "ok", <<>>)
    /\ UNCHANGED <<db, dbInitialized, handles, dataDir, ret, assigned, life, snap,
                   calls, inserted>>

\* the close of a Database object completes and the callback of
\* closeDatabase runs: it clears this.db, whichever object that refers to
closeCallback(t) ==
    /\ t.kind = "close"
    /\ handles[t.h] = "open"
    /\ ~t.behind
    /\ ~\E u \in tasks : u.h = t.h /\ u.kind # "close" /\ ~u.behind
    /\ handles' = [handles EXCEPT ![t.h] = "closed"]
    /\ db' = NoDb
    /\ dbInitialized' = FALSE
    /\ tasks' = tasks \ {t}
    /\ last' = Settled(t, "ok", <<>>)
    /\ UNCHANGED <<dataDir, file, ret, assigned, life, snap, calls, inserted>>

\* work handed to a Database object that was closed since: its callback
\* gets an error, and no field changes
closedCallback(t) ==
    /\ handles[t.h] = "closed"
    /\ tasks' = tasks \ {t}
    /\ last' = Settled(t, "SqliteError", <<>>)
    /\ UNCHANGED <<db, dbInitialized, handles, dataDir, file, ret, assigned, life, snap,
                   calls, inserted>>

NextAsync ==
    \/ initializeDatabaseCall
    \/ \E args \in AsyncEnqueueArgs : addMessageToQueueCall(args)
    \/ \E args \in AsyncLimitArgs : getMessagesFromQueueCall(args)
    \/ \E messageIds \in AsyncIdArrays : removeMessagesFromQueueCall(messageIds)
    \/ closeDatabaseCall
    \/ \E t \in tasks : openCallback(t)
    \/ \E t \in tasks : createTableCallback(t)
    \/ \E t \in tasks : insertCallback(t)
    \/ \E t \in tasks : selectCallback(t)
    \/ \E t \in tasks : deleteInCallback(t)
    \/ \E t \in tasks : closeCallback(t)
    \/ \E t \in tasks : closedCallback(t)

SpecAsync == InitAsync /\ [][NextAsync]_vars


\* --------------------------------------------------------------- C16
\* a call settled in this step: its callback ran, or its guard returned
SettledNow == last' # last

\* C16: with enqueues in flight together on one Database object, every
\*      enqueue that succeeds adds exactly one message to the queue, and the
\*      id it gets was given to no other enqueue.
C16_ConcurrentEnqueues ==
    [][(SettledNow /\ last'.t.kind = "insert" /\ last'.status = "ok") =>
          \E m \in file'.rows :
             /\ m \notin file.rows
             /\ file'.rows = file.rows \cup {m}
             /\ Cardinality(file'.rows) = Cardinality(file.rows) + 1
             /\ \A i \in 1..Len(assigned) : assigned[i] # m.id
             /\ m.id \notin Ids(inserted)]_vars

\* two enqueues were in flight together on one object and both succeeded:
\* the one called first settled last, after a removal had emptied the queue
C16_Witness ==
    /\ last.t.kind = "insert"
    /\ last.status = "ok"
    /\ Len(assigned) = 2
    /\ assigned[1] # assigned[2]
    /\ Cardinality(inserted) = 2
    /\ \E r \in inserted : r \notin file.rows
    /\ \E r \in file.rows : r.id = assigned[2]
    /\ calls = MaxCalls
    /\ last.t.call = 2


\* --------------------------------------------------------------- C17
\* the messages a list() returned
Returned(value) == {value[i] : i \in 1..Len(value)}

\* C17: a list() in flight together with removeByIds(ids) returns every
\*      message whole, exactly as it was enqueued, or not at all; a message
\*      that was in the queue when list() was called and that no removal in
\*      flight names is returned, and no message removed before the call is.
C17_RemoveAtomicForReaders ==
    [][(SettledNow /\ last'.t.kind = "select" /\ last'.t.h # NoDb /\ last'.status = "ok") =>
          LET t == last'.t
              res == Returned(last'.value)
          IN /\ \A m \in res : m \in inserted
             /\ \A m \in res : m \in t.rows \/ m.id > t.seq
             /\ \A r \in t.rows : r.id \notin t.named => r \in res
             /\ Cardinality(res) = Len(last'.value)]_vars

\* a list() called on a queue of two messages, with removeByIds([1]) in flight
\* at the call or called while the list() was in flight, returned message 2
\* alone
C17_Witness ==
    /\ last.t.kind = "select"
    /\ last.status = "ok"
    /\ Cardinality(last.t.rows) = 2
    /\ last.t.named = {1}
    /\ Len(last.value) = 1
    /\ last.value[1].id = 2
    /\ last.value[1] \in inserted


\* --------------------------------------------------------------- C19
\* C19: an enqueue, list or removeByIds called while an initialize() or a
\*      close() is in progress is either answered by the guard on this.db
\*      (NotInitialized, or the safe default) or takes effect on the fully
\*      initialized store: when its statement runs, the schema of the object
\*      it was handed to has been ensured, that object is the one this.db
\*      refers to, and no close of it is in progress.
C19_AsClaimed ==
    [][(SettledNow /\ last'.t.kind \in {"insert", "select", "deleteIn"} /\ last'.t.during) =>
          \/ last'.t.h = NoDb
          \/ /\ last'.status = "ok"
             /\ dbInitialized
             /\ db = last'.t.h
             /\ ~\E c \in tasks : c.kind = "close" /\ c.h = last'.t.h]_vars

\* --------------------------------------------------------------- C20
\* C20: in every reachable state dbInitialized implies this.db is not null,
\*      and dbInitialized becomes true only in the CREATE TABLE callback of
\*      the initialize() whose Database object this.db still refers to and
\*      which is open.
C20_AsClaimed ==
    /\ [](dbInitialized => db # NoDb)
    /\ [][(dbInitialized' /\ ~dbInitialized) =>
             /\ last'.t.kind = "create"
             /\ db' # NoDb
             /\ last'.t.own = db'
             /\ handles'[last'.t.own] = "open"]_vars


====
